---------------------------- MODULE Spec2Model ----------------------------
(***************************************************************************)
(* lrcfetch-tui: the event loop of src/main.rs, its key dispatch, the two  *)
(* permit pools and the background fetch and write tasks, with the lyrics  *)
(* values, the remote query and the sidecar files of src/musicdata.rs.     *)
(*                                                                         *)
(* Conventions.  A Rust String is a sequence of one-character strings.  An *)
(* Option<T> is a sequence of length at most one: <<>> is None and <<v>>   *)
(* is Some(v).  usize::MAX is the largest integer of the checker, 2^31 - 1, *)
(* in place of 2^64 - 1: the program only saturates at it and compares     *)
(* with it.                                                                *)
(***************************************************************************)
EXTENDS Integers, Sequences, FiniteSets, Bags, TLC

VARIABLES
    pc,                  \* position of main(): config, reset, drain, render, poll, exit
    disk,                \* sidecar files next to each track: [path -> [lrc, txt]]
    settings,            \* State.settings
    screen,              \* State.screen
    table_state,         \* State.table_state.selected
    will_quit,           \* State.will_quit
    music,               \* State.music
    lyrics,              \* State.lyrics
    total,               \* State.total
    done,                \* State.done
    client_limiter,      \* available permits of State.client_limiter
    file_limiter,        \* available permits of State.file_limiter
    filter,              \* State.filter
    field,               \* State.field
    current_string,      \* State.current_string
    filters_popup_state, \* State.filters_popup_state.selected
    api_waiting,         \* api_joins: tasks awaiting a network permit
    api_querying,        \* api_joins: tasks holding a permit, inside query(); each
                         \* notes whether set_concurrent_queries ran since it acquired
    api_done,            \* api_joins: finished tasks, in completion order
    write_waiting,       \* write_joins: tasks awaiting a disk permit
    write_running,       \* write_joins: tasks holding a permit, inside to_file()
    write_done           \* write_joins: finished tasks not yet joined

uivars == <<screen, table_state, will_quit, filter, field, current_string,
            filters_popup_state>>
storevars == <<settings, music, lyrics, total, done>>
poolvars == <<client_limiter, file_limiter>>
apivars == <<api_waiting, api_querying, api_done>>
writevars == <<write_waiting, write_running, write_done>>
vars == <<pc, disk, uivars, storevars, poolvars, apivars, writevars>>

----------------------------------------------------------------------------
(* Bounds of the model. *)

\* fetch and write tasks alive at once in the general specifications
MaxJobs == 2
\* fetch and write tasks alive at once in the text-entry specifications
MaxJobsText == 1
\* value of State.total above which no further fetch is requested
MaxTotal == 3
\* completions reconciled in one drain in the disk-pool specification,
\* counted above the size of the disk pool
BurstOver == 1

(* Program constants. *)

USIZE_MAX == 2147483647
DefaultConcurrent == 50
ClientLimiterInit == 50
FileLimiterInit == 50

----------------------------------------------------------------------------
(* Strings. *)

AsciiUpper == <<"A","B","C","D","E","F","G","H","I","J","K","L","M",
                "N","O","P","Q","R","S","T","U","V","W","X","Y","Z">>
AsciiLower == <<"a","b","c","d","e","f","g","h","i","j","k","l","m",
                "n","o","p","q","r","s","t","u","v","w","x","y","z">>

\* u8/char::to_ascii_lowercase: 'A'..'Z' map to 'a'..'z', everything else is kept
ascii_lowercase_char(c) ==
    IF \E i \in 1..26 : AsciiUpper[i] = c
    THEN AsciiLower[CHOOSE i \in 1..26 : AsciiUpper[i] = c]
    ELSE c

\* str::to_ascii_lowercase
to_ascii_lowercase(s) == [i \in 1..Len(s) |-> ascii_lowercase_char(s[i])]

\* str::contains(&str): the pattern occurs as a contiguous run of the text
contains(text, pat) ==
    \E i \in 0..(Len(text) - Len(pat)) : SubSeq(text, i + 1, i + Len(pat)) = pat

----------------------------------------------------------------------------
(* Options. *)

NoneOpt == <<>>
Some(v) == <<v>>
IsSome(o) == Len(o) = 1
Unwrap(o) == o[1]

----------------------------------------------------------------------------
(* musicdata.rs: lyrics values, the sidecar files, the remote query. *)

LyricsNone == [kind |-> "None", text |-> ""]
LyricsSynced(t) == [kind |-> "Synced", text |-> t]
LyricsPlain(t) == [kind |-> "Plain", text |-> t]
LyricsInstrumental == [kind |-> "Instrumental", text |-> ""]

\* content of a sidecar that exists and cannot be read as UTF-8 text
Unreadable == "<not utf-8>"

NoSidecars == [lrc |-> NoneOpt, txt |-> NoneOpt]

\* to_file that removes the sidecar of the other kind
to_file_RemovesOther(l, files) ==
    CASE l.kind = "None" -> files
      [] l.kind = "Synced" -> [lrc |-> Some(l.text), txt |-> NoneOpt]
      [] l.kind = "Plain" -> [lrc |-> NoneOpt, txt |-> Some(l.text)]
      [] l.kind = "Instrumental" -> files

\* Lyrics::to_file on success: the files of one track after the write
to_file(l, files) ==
    CASE l.kind = "None" -> files
      [] l.kind = "Synced" -> [files EXCEPT !.lrc = Some(l.text)]
      [] l.kind = "Plain" -> [files EXCEPT !.txt = Some(l.text)]
      [] l.kind = "Instrumental" -> files

\* Lyrics::to_file whose tokio::fs::write fails: the file is left as it was,
\* or was created or truncated before the failure
to_file_failed(l, files) ==
    CASE l.kind = "Synced" -> {files, [files EXCEPT !.lrc = Some("")]}
      [] l.kind = "Plain" -> {files, [files EXCEPT !.txt = Some("")]}
      [] OTHER -> {}

\* check_lyrics that looks for the .txt sidecar before the .lrc one
check_lyrics_TxtFirst(files) ==
    IF IsSome(files.txt)
    THEN IF Unwrap(files.txt) = Unreadable THEN NoneOpt
         ELSE Some(LyricsPlain(Unwrap(files.txt)))
    ELSE IF IsSome(files.lrc)
    THEN IF Unwrap(files.lrc) = Unreadable THEN NoneOpt
         ELSE Some(LyricsSynced(Unwrap(files.lrc)))
    ELSE Some(LyricsNone)

\* MusicData::check_lyrics: Ok(lyrics) as <<lyrics>>, Err(_) as <<>>
check_lyrics(files) ==
    IF IsSome(files.lrc)
    THEN IF Unwrap(files.lrc) = Unreadable THEN NoneOpt
         ELSE Some(LyricsSynced(Unwrap(files.lrc)))
    ELSE IF IsSome(files.txt)
    THEN IF Unwrap(files.txt) = Unreadable THEN NoneOpt
         ELSE Some(LyricsPlain(Unwrap(files.txt)))
    ELSE Some(LyricsNone)

\* what client.get(..).send() and response.text() can give: a transport error,
\* a status, an unreadable body, a body that is no ApiResponse, an ApiResponse
SyncedText == "abc"
PlainText == "xyz"
ApiResponses ==
    [instrumental : BOOLEAN, plain_lyrics : {NoneOpt, Some(PlainText)},
     synced_lyrics : {NoneOpt, Some(SyncedText)}]
Responses ==
    {[kind |-> "send_error"], [kind |-> "status_error"], [kind |-> "text_error"],
     [kind |-> "parse_error"]}
    \cup {[kind |-> "json", data |-> d] : d \in ApiResponses}

\* MusicData::query, given what the remote service answered
query(response) ==
    IF response.kind # "json" THEN LyricsNone
    ELSE LET lyrics_data == response.data IN
         IF IsSome(lyrics_data.synced_lyrics)
         THEN LyricsSynced(Unwrap(lyrics_data.synced_lyrics))
         ELSE IF IsSome(lyrics_data.plain_lyrics)
         THEN LyricsPlain(Unwrap(lyrics_data.plain_lyrics))
         ELSE IF lyrics_data.instrumental THEN LyricsInstrumental
         ELSE LyricsNone

----------------------------------------------------------------------------
(* Filter. *)

NoFilter == [title |-> NoneOpt, artist |-> NoneOpt, album |-> NoneOpt]

\* Filter::apply
apply(f, item) ==
    IF IsSome(f.album)
       /\ ~contains(to_ascii_lowercase(item.album), to_ascii_lowercase(Unwrap(f.album)))
    THEN FALSE
    ELSE IF IsSome(f.artist)
       /\ ~contains(to_ascii_lowercase(item.artist), to_ascii_lowercase(Unwrap(f.artist)))
    THEN FALSE
    ELSE IF IsSome(f.title)
       /\ ~contains(to_ascii_lowercase(item.title), to_ascii_lowercase(Unwrap(f.title)))
    THEN FALSE
    ELSE TRUE

\* music.iter().filter(|x| state.filter.apply(x)): the rows of the table
Visible(m, f) == SelectSeq(m, LAMBDA x : apply(f, x))

----------------------------------------------------------------------------
(* The world outside the program: the music directories, the configuration *)
(* files and the keys of the keyboard.                                     *)

Track(t, ar, al, p) == [title |-> t, artist |-> ar, album |-> al, path |-> p]

DefaultMusicPath == "~/Music"
EnoMusicPath == "/srv/eno"
AccentMusicPath == "/srv/chanson"

LibraryMain ==
    << Track(<<"a">>, <<"A">>, <<"b">>, "p1"),
       Track(<<"b">>, <<"b">>, <<"a">>, "p2") >>
LibraryEno ==
    << Track(<<"x">>, <<"B","r","i","a","n"," ","E","n","o">>, <<"y">>, "p1"),
       Track(<<"x">>, <<"D","e","v","o">>, <<"y">>, "p2"),
       Track(<<"x">>, <<"e","n","o","-","c","o","r","e">>, <<"y">>, "p3") >>
LibraryAccent ==
    << Track(<<"x">>, <<"É","d","i","t","h">>, <<"y">>, "p1"),
       Track(<<"x">>, <<"é","d","e","n">>, <<"y">>, "p2") >>

Paths == {"p1", "p2", "p3"}

\* scan_music(path): the tracks found under a root, in the order of the walk
scan_music_dir(path) ==
    CASE path = DefaultMusicPath -> LibraryMain
      [] path = EnoMusicPath -> LibraryEno
      [] path = AccentMusicPath -> LibraryAccent
      [] OTHER -> << >>

\* Settings::default
DefaultSettings ==
    [concurrent_queries |-> DefaultConcurrent, music_path |-> DefaultMusicPath]

\* what get_or_create_config can find: no file at any conventional place, a
\* file that does not read or parse, a file that parses to these settings
ConfigMissing == [kind |-> "missing"]
ConfigUnparseable == [kind |-> "unparseable"]
ConfigParsed(n, path) ==
    [kind |-> "parsed", settings |-> [concurrent_queries |-> n, music_path |-> path]]

\* the sidecars on disk when the program starts
DiskEmpty == [p \in Paths |-> NoSidecars]
DiskSyncedPlain ==
    [p \in Paths |->
        CASE p = "p1" -> [lrc |-> Some(SyncedText), txt |-> NoneOpt]
          [] p = "p2" -> [lrc |-> NoneOpt, txt |-> Some("old")]
          [] OTHER -> NoSidecars]
DiskUnreadable ==
    [p \in Paths |->
        CASE p = "p1" -> [lrc |-> Some(Unreadable), txt |-> NoneOpt]
          [] OTHER -> NoSidecars]

KeyChar(c) == [code |-> "Char", c |-> c]
KeyEnter == [code |-> "Enter", c |-> ""]
KeyBackspace == [code |-> "Backspace", c |-> ""]
KeyEsc == [code |-> "Esc", c |-> ""]

----------------------------------------------------------------------------
(* usize arithmetic and the selection states of ratatui. *)

saturating_add(i, n) == IF i > USIZE_MAX - n THEN USIZE_MAX ELSE i + n
saturating_sub(i, n) == IF i < n THEN 0 ELSE i - n

\* TableState::select_next, ListState::select_next
select_next(selected) ==
    Some(IF IsSome(selected) THEN saturating_add(Unwrap(selected), 1) ELSE 0)

\* TableState::select_previous, ListState::select_previous
select_previous(selected) ==
    Some(IF IsSome(selected) THEN saturating_sub(Unwrap(selected), 1) ELSE USIZE_MAX)

\* what rendering a Table or a List of n rows does to its selection
render_selection(selected, n) ==
    IF n = 0 THEN NoneOpt
    ELSE IF IsSome(selected) /\ Unwrap(selected) >= n THEN Some(saturating_sub(n, 1))
    ELSE selected

----------------------------------------------------------------------------
(* Permit pools: the available permits of a tokio Semaphore. *)

\* Semaphore::forget_permits(n)
forget_permits(avail, n) == IF avail < n THEN 0 ELSE avail - n
\* Semaphore::add_permits(n)
add_permits(avail, n) == avail + n

\* Func::set_concurrent_queries: the available permits of client_limiter after it
set_concurrent_queries(avail, value) ==
    add_permits(forget_permits(avail, USIZE_MAX), value)

----------------------------------------------------------------------------
(* The State that the key handlers read and write, as one record. *)

State ==
    [screen |-> screen, table_state |-> table_state, will_quit |-> will_quit,
     music |-> music, lyrics |-> lyrics, total |-> total, filter |-> filter,
     field |-> field, current_string |-> current_string,
     filters_popup_state |-> filters_popup_state,
     spawned |-> << >>, panicked |-> FALSE]

\* scan_music that leaves the counting to the completion of the task
scan_music_NoCount(data, st) == [st EXCEPT !.spawned = Append(@, data)]

\* Func::scan_music: one task spawned on api_joins, total incremented
scan_music(data, st) ==
    [st EXCEPT !.spawned = Append(@, data), !.total = @ + 1]

\* Func::select_next
func_select_next(st) == [st EXCEPT !.table_state = select_next(@)]

\* Func::select_previous
func_select_previous(st) == [st EXCEPT !.table_state = select_previous(@)]

\* Func::scan_song
scan_song(st) ==
    IF ~IsSome(st.table_state) THEN st
    ELSE LET selected == Unwrap(st.table_state) IN
         IF selected >= Len(st.music) THEN [st EXCEPT !.panicked = TRUE]
         ELSE func_select_next(scan_music(st.music[selected + 1], st))

\* the test of Func::scan_all on the entry of one track
scan_all_wants(st, m) ==
    /\ m.path \in DOMAIN st.lyrics
    /\ st.lyrics[m.path].kind \in {"None", "Plain"}

RECURSIVE scan_all_from(_, _)
scan_all_from(rows, st) ==
    IF rows = << >> THEN st
    ELSE scan_all_from(Tail(rows),
            IF scan_all_wants(st, Head(rows)) THEN scan_music(Head(rows), st) ELSE st)

\* scan_all that walks the whole library instead of the rows of the table
scan_all_AllRows(st) == scan_all_from(st.music, st)

\* Func::scan_all
scan_all(st) == scan_all_from(Visible(st.music, st.filter), st)

\* quit that leaves the flag as it is
quit_Nothing(st) == st

\* Func::quit
quit(st) == [st EXCEPT !.will_quit = TRUE]

\* the OpenFilter* arms of Func::call
open_filter(st, f) ==
    [st EXCEPT !.current_string = IF IsSome(st.filter[f]) THEN Unwrap(st.filter[f]) ELSE << >>,
               !.field = Some(f)]

\* the OpenSelectedFilter arm of Func::call
open_selected_filter(st) ==
    CASE st.filters_popup_state = Some(0) -> open_filter(st, "title")
      [] st.filters_popup_state = Some(1) -> open_filter(st, "artist")
      [] st.filters_popup_state = Some(2) -> open_filter(st, "album")
      [] OTHER -> st

\* Func::call
call(func, st) ==
    CASE func = "ScanAll" -> scan_all(st)
      [] func = "ScanSelected" -> scan_song(st)
      [] func = "SelectNext" -> func_select_next(st)
      [] func = "SelectPrevious" -> func_select_previous(st)
      [] func = "Quit" -> quit(st)
      [] func = "OpenFilterTitle" -> open_filter(st, "title")
      [] func = "OpenFilterAlbum" -> open_filter(st, "album")
      [] func = "OpenFilterArtist" -> open_filter(st, "artist")
      [] func = "OpenFiltersPopup" -> [st EXCEPT !.screen = "Filters"]
      [] func = "CloseFiltersPopup" -> [st EXCEPT !.screen = "Main"]
      [] func = "FiltersSelectNext" ->
            [st EXCEPT !.filters_popup_state = select_next(@)]
      [] func = "FiltersSelectPrevious" ->
            [st EXCEPT !.filters_popup_state = select_previous(@)]
      [] func = "OpenSelectedFilter" -> open_selected_filter(st)

KeyBind(k, scr, f) == [keycode |-> k, screen |-> scr, func |-> f]

KEYMAP ==
    << KeyBind(KeyChar("a"), "Main", "ScanAll"),
       KeyBind(KeyChar("f"), "Main", "OpenFiltersPopup"),
       KeyBind(KeyChar("q"), "Filters", "CloseFiltersPopup"),
       KeyBind(KeyChar("j"), "Main", "SelectNext"),
       KeyBind(KeyChar("k"), "Main", "SelectPrevious"),
       KeyBind(KeyChar("j"), "Filters", "FiltersSelectNext"),
       KeyBind(KeyChar("k"), "Filters", "FiltersSelectPrevious"),
       KeyBind(KeyEnter, "Filters", "OpenSelectedFilter"),
       KeyBind(KeyChar("q"), "Main", "Quit"),
       KeyBind(KeyEnter, "Main", "ScanSelected") >>

\* keymap.get(&KeyBind { screen, keycode }) on the map main() builds from KEYMAP
keymap_get(scr, keycode) ==
    LET hits == {i \in 1..Len(KEYMAP) :
                    KEYMAP[i].keycode = keycode /\ KEYMAP[i].screen = scr}
    IN IF hits = {} THEN NoneOpt
       ELSE Some(KEYMAP[CHOOSE i \in hits : \A j \in hits : j <= i].func)

\* State::set_field
set_field(st, f, value) == [st EXCEPT !.filter[f] = value]

\* pop that empties the string
pop_All(str) == << >>

\* String::pop
pop(str) == IF str = << >> THEN str ELSE SubSeq(str, 1, Len(str) - 1)

\* the text-entry arm of State::event_handler
text_entry(st, keycode) ==
    CASE keycode.code = "Enter" ->
            LET str == IF st.current_string = << >> THEN NoneOpt
                       ELSE Some(st.current_string)
            IN [set_field(st, Unwrap(st.field), str) EXCEPT
                    !.current_string = << >>, !.field = NoneOpt]
      [] keycode.code = "Char" ->
            [st EXCEPT !.current_string = Append(@, keycode.c)]
      [] keycode.code = "Backspace" ->
            [st EXCEPT !.current_string = pop(@)]
      [] OTHER -> st

\* the keybinding arm of State::event_handler
key_binding(st, keycode) ==
    LET func == keymap_get(st.screen, keycode)
    IN IF IsSome(func) THEN call(Unwrap(func), st) ELSE st

\* event_handler that also looks the key up in the keymap during text entry
event_handler_AlsoBinds(st, keycode) ==
    IF IsSome(st.field) THEN key_binding(text_entry(st, keycode), keycode)
    ELSE key_binding(st, keycode)

\* State::event_handler on the press of a key
event_handler(st, keycode) ==
    IF IsSome(st.field) THEN text_entry(st, keycode) ELSE key_binding(st, keycode)

----------------------------------------------------------------------------
(* Start of main(): State::default, then get_or_create_config. *)

\* HashMap::insert
insert(map, k, v) == [x \in DOMAIN map \cup {k} |-> IF x = k THEN v ELSE map[x]]

EmptyMap == [x \in {} |-> LyricsNone]

\* the loop of Func::set_settings that joins check_lyrics of every track
RECURSIVE probe_all(_, _, _)
probe_all(tracks, files, map) ==
    IF tracks = << >> THEN map
    ELSE LET m == Head(tracks)
             result == check_lyrics(files[m.path])
         IN probe_all(Tail(tracks), files,
                      IF IsSome(result) THEN insert(map, m.path, Unwrap(result)) ELSE map)

\* State::default, over the sidecars found on disk.  The filter is the one the
\* user enters in the session: State::default has NoFilter, and a specification
\* that leaves text entry out draws the entered filter here.
InitWith(disks, filters) ==
    /\ pc = "config"
    /\ disk \in disks
    /\ settings = DefaultSettings
    /\ screen = "Main"
    /\ table_state = Some(0)
    /\ will_quit = FALSE
    /\ music = << >>
    /\ lyrics = EmptyMap
    /\ total = 0
    /\ done = 0
    /\ client_limiter = ClientLimiterInit
    /\ file_limiter = FileLimiterInit
    /\ filter \in filters
    /\ field = NoneOpt
    /\ current_string = << >>
    /\ filters_popup_state = NoneOpt
    /\ api_waiting = EmptyBag
    /\ api_querying = EmptyBag
    /\ api_done = << >>
    /\ write_waiting = EmptyBag
    /\ write_running = EmptyBag
    /\ write_done = 0

\* Func::set_settings
set_settings(new) ==
    /\ settings' = new
    /\ client_limiter' = set_concurrent_queries(client_limiter, new.concurrent_queries)
    /\ music' = scan_music_dir(new.music_path)
    /\ lyrics' = probe_all(scan_music_dir(new.music_path), disk, lyrics)

\* get_or_create_config
GetOrCreateConfig(configs) ==
    /\ pc = "config"
    /\ \E cfg \in configs :
        CASE cfg.kind = "parsed" -> set_settings(cfg.settings)
          [] cfg.kind = "missing" -> set_settings(DefaultSettings)
          [] OTHER -> UNCHANGED <<settings, client_limiter, music, lyrics>>
    /\ pc' = "reset"
    /\ UNCHANGED <<disk, uivars, total, done, file_limiter, apivars, writevars>>

----------------------------------------------------------------------------
(* The loop of main(). *)

\* fetch and write tasks that are spawned and not yet joined or finished
JobsAlive ==
    BagCardinality(api_waiting) + BagCardinality(api_querying) + Len(api_done)
    + BagCardinality(write_waiting) + BagCardinality(write_running)

\* IdleReset that resets the counters in every iteration
IdleReset_Always ==
    /\ pc = "reset"
    /\ total' = 0 /\ done' = 0
    /\ pc' = "drain"
    /\ UNCHANGED <<disk, uivars, settings, music, lyrics, poolvars, apivars, writevars>>

\* IdleReset that forgets to reset done
IdleReset_KeepsDone ==
    /\ pc = "reset"
    /\ IF total = done THEN total' = 0 /\ done' = done ELSE UNCHANGED <<total, done>>
    /\ pc' = "drain"
    /\ UNCHANGED <<disk, uivars, settings, music, lyrics, poolvars, apivars, writevars>>

\* main(): if state.total == state.done { both = 0 }
IdleReset ==
    /\ pc = "reset"
    /\ IF total = done THEN total' = 0 /\ done' = 0 ELSE UNCHANGED <<total, done>>
    /\ pc' = "drain"
    /\ UNCHANGED <<disk, uivars, settings, music, lyrics, poolvars, apivars, writevars>>

\* LyricsRecord::save: the record's write task, spawned on write_joins
save(log, waiting) == waiting (+) SetToBag({log})

\* DrainApi that keeps a stored Synced entry
DrainApi_KeepSynced ==
    /\ pc = "drain"
    /\ api_done # << >>
    /\ LET log == Head(api_done) IN
        /\ write_waiting' = save(log, write_waiting)
        /\ lyrics' = IF log.path \in DOMAIN lyrics /\ lyrics[log.path].kind = "Synced"
                      THEN lyrics
                      ELSE insert(lyrics, log.path, log.lyrics)
        /\ done' = done + 1
    /\ api_done' = Tail(api_done)
    /\ UNCHANGED <<pc, disk, uivars, settings, music, total, poolvars, api_waiting,
                   api_querying, write_running, write_done>>

\* DrainApi that takes one completion and goes on to render
DrainApi_OnePerIteration ==
    /\ pc = "drain"
    /\ api_done # << >>
    /\ LET log == Head(api_done) IN
        /\ write_waiting' = save(log, write_waiting)
        /\ lyrics' = insert(lyrics, log.path, log.lyrics)
        /\ done' = done + 1
    /\ api_done' = Tail(api_done)
    /\ pc' = "render"
    /\ UNCHANGED <<disk, uivars, settings, music, total, poolvars, api_waiting,
                   api_querying, write_running, write_done>>

\* main(): one turn of while let Some(Ok(log)) = api_joins.try_join_next()
DrainApi ==
    /\ pc = "drain"
    /\ api_done # << >>
    /\ LET log == Head(api_done) IN
        /\ write_waiting' = save(log, write_waiting)
        /\ lyrics' = insert(lyrics, log.path, log.lyrics)
        /\ done' = done + 1
    /\ api_done' = Tail(api_done)
    /\ UNCHANGED <<pc, disk, uivars, settings, music, total, poolvars, api_waiting,
                   api_querying, write_running, write_done>>

\* main(): api_joins has nothing ready, then
\* while let Some(Ok(_)) = write_joins.try_join_next() {}
DrainWrite ==
    /\ pc = "drain"
    /\ api_done = << >>
    /\ write_done' = 0
    /\ pc' = "render"
    /\ UNCHANGED <<disk, uivars, storevars, poolvars, apivars, write_waiting,
                   write_running>>

\* the ratio Screen::render gives the gauge, as <<numerator, denominator>>
progress_ratio(t, d) == IF t = 0 THEN <<1, 1>> ELSE <<d, t>>

\* the item Screen::render shows the lyrics of
detail_item(m, f, selected) ==
    IF IsSome(selected) /\ Unwrap(selected) < Len(Visible(m, f))
    THEN Some(Visible(m, f)[Unwrap(selected) + 1])
    ELSE NoneOpt

\* the text Screen::render puts in the lyrics pane; NoneOpt when the block
\* 'lyrics is left before anything is drawn
lyrics_pane(m, f, selected, store) ==
    LET item == detail_item(m, f, selected)
    IN IF ~IsSome(item) THEN NoneOpt
       ELSE IF Unwrap(item).path \in DOMAIN store
       THEN LET lyric == store[Unwrap(item).path]
            IN CASE lyric.kind = "None" -> Some("None")
                 [] lyric.kind = "Instrumental" -> Some("Instrumental")
                 [] OTHER -> Some(lyric.text)
       ELSE Some("Not found")

\* main(): terminal.draw of Screen over the rows of the filtered library
Render ==
    /\ pc = "render"
    /\ table_state' = render_selection(table_state, Len(Visible(music, filter)))
    /\ filters_popup_state' =
            IF ~IsSome(field) /\ screen = "Filters"
            THEN render_selection(filters_popup_state, 3)
            ELSE filters_popup_state
    /\ pc' = "poll"
    /\ UNCHANGED <<disk, screen, will_quit, filter, field, current_string, storevars,
                   poolvars, apivars, writevars>>

\* main(): terminal.draw fails
RenderError ==
    /\ pc = "render"
    /\ pc' = "exit"
    /\ UNCHANGED <<disk, uivars, storevars, poolvars, apivars, writevars>>

\* the tasks a key handler spawned, added to those awaiting a permit
spawn_all(spawned, waiting) ==
    [m \in BagToSet(waiting) \cup {spawned[i] : i \in DOMAIN spawned} |->
        CopiesIn(m, waiting) + Cardinality({i \in DOMAIN spawned : spawned[i] = m})]

\* main(): event::poll gives a key press, event_handler, then the quit test
PollKey(keys, buffers, jobs) ==
    /\ pc = "poll"
    /\ \E keycode \in keys :
        LET st == event_handler(State, keycode) IN
        /\ st.current_string \in buffers
        /\ st.spawned = << >>
           \/ (JobsAlive + Len(st.spawned) <= jobs /\ st.total <= MaxTotal)
        /\ screen' = st.screen
        /\ table_state' = st.table_state
        /\ will_quit' = st.will_quit
        /\ total' = st.total
        /\ filter' = st.filter
        /\ field' = st.field
        /\ current_string' = st.current_string
        /\ filters_popup_state' = st.filters_popup_state
        /\ api_waiting' = spawn_all(st.spawned, api_waiting)
        /\ pc' = IF st.panicked THEN "panic" ELSE IF st.will_quit THEN "exit" ELSE "reset"
    /\ UNCHANGED <<disk, settings, music, lyrics, done, poolvars, api_querying,
                   api_done, writevars>>

\* main(): event::poll times out, or the event is no key press
PollNone ==
    /\ pc = "poll"
    /\ pc' = IF will_quit THEN "exit" ELSE "reset"
    /\ UNCHANGED <<disk, uivars, storevars, poolvars, apivars, writevars>>

----------------------------------------------------------------------------
(* The background tasks. *)

Running == pc \in {"reset", "drain", "render", "poll"}

\* a fetch that has just acquired its permit
Holder(data) == [data |-> data, before_set |-> FALSE]

\* ApiAcquire that does not wait for a permit to be available
ApiAcquire_NoWait ==
    /\ Running
    /\ \E data \in BagToSet(api_waiting) :
        /\ api_waiting' = api_waiting (-) SetToBag({data})
        /\ api_querying' = api_querying (+) SetToBag({Holder(data)})
    /\ client_limiter' = saturating_sub(client_limiter, 1)
    /\ UNCHANGED <<pc, disk, uivars, storevars, file_limiter, api_done, writevars>>

\* the task of Func::scan_music: semaphore.acquire_owned() returns a permit
ApiAcquire ==
    /\ Running
    /\ client_limiter > 0
    /\ \E data \in BagToSet(api_waiting) :
        /\ api_waiting' = api_waiting (-) SetToBag({data})
        /\ api_querying' = api_querying (+) SetToBag({Holder(data)})
    /\ client_limiter' = client_limiter - 1
    /\ UNCHANGED <<pc, disk, uivars, storevars, file_limiter, api_done, writevars>>

\* the LyricsRecord the task of Func::scan_music returns: acquired tells
\* whether acquire_owned() gave Ok(lock); the semaphore is never closed, so
\* the tasks of the program all run with acquired = TRUE
task_result(acquired, data, response) ==
    IF ~acquired THEN [lyrics |-> LyricsNone, path |-> data.path]
    ELSE [lyrics |-> query(response), path |-> data.path]

\* ApiReturn that goes back to wait for a permit when the query failed
ApiReturn_Retry(responses) ==
    /\ Running
    /\ \E holder \in BagToSet(api_querying), response \in responses :
        /\ api_querying' = api_querying (-) SetToBag({holder})
        /\ IF response.kind # "json"
           THEN /\ api_waiting' = api_waiting (+) SetToBag({holder.data})
                /\ api_done' = api_done
           ELSE /\ api_waiting' = api_waiting
                /\ api_done' = Append(api_done, task_result(TRUE, holder.data, response))
    /\ client_limiter' = add_permits(client_limiter, 1)
    /\ UNCHANGED <<pc, disk, uivars, storevars, file_limiter, writevars>>

\* ApiReturn whose task puts its result in the lyrics store itself
ApiReturn_StoresResult(responses) ==
    /\ Running
    /\ \E holder \in BagToSet(api_querying), response \in responses :
        /\ api_querying' = api_querying (-) SetToBag({holder})
        /\ api_done' = Append(api_done, task_result(TRUE, holder.data, response))
        /\ lyrics' = insert(lyrics, holder.data.path, query(response))
    /\ client_limiter' = add_permits(client_limiter, 1)
    /\ UNCHANGED <<pc, disk, uivars, settings, music, total, done, file_limiter,
                   api_waiting, writevars>>

\* the task of Func::scan_music: query returns, the permit is dropped, the task ends
ApiReturn(responses) ==
    /\ Running
    /\ \E holder \in BagToSet(api_querying), response \in responses :
        /\ api_querying' = api_querying (-) SetToBag({holder})
        /\ api_done' = Append(api_done, task_result(TRUE, holder.data, response))
    /\ client_limiter' = add_permits(client_limiter, 1)
    /\ UNCHANGED <<pc, disk, uivars, storevars, file_limiter, api_waiting, writevars>>

\* WriteAcquire that does not wait for a permit to be available
WriteAcquire_NoWait ==
    /\ Running
    /\ \E log \in BagToSet(write_waiting) :
        /\ write_waiting' = write_waiting (-) SetToBag({log})
        /\ write_running' = write_running (+) SetToBag({log})
    /\ file_limiter' = saturating_sub(file_limiter, 1)
    /\ UNCHANGED <<pc, disk, uivars, storevars, client_limiter, apivars, write_done>>

\* the task of LyricsRecord::save: sema.acquire_owned() returns a permit
WriteAcquire ==
    /\ Running
    /\ file_limiter > 0
    /\ \E log \in BagToSet(write_waiting) :
        /\ write_waiting' = write_waiting (-) SetToBag({log})
        /\ write_running' = write_running (+) SetToBag({log})
    /\ file_limiter' = file_limiter - 1
    /\ UNCHANGED <<pc, disk, uivars, storevars, client_limiter, apivars, write_done>>

\* the task of LyricsRecord::save: to_file returns Ok, the permit is dropped
WriteOk ==
    /\ pc # "config"
    /\ \E log \in BagToSet(write_running) :
        /\ write_running' = write_running (-) SetToBag({log})
        /\ disk' = [disk EXCEPT ![log.path] = to_file(log.lyrics, @)]
    /\ file_limiter' = add_permits(file_limiter, 1)
    /\ write_done' = write_done + 1
    /\ UNCHANGED <<pc, uivars, storevars, client_limiter, apivars, write_waiting>>

\* WriteErr whose task ends without giving its permit back
WriteErr_KeepsPermit ==
    /\ pc # "config"
    /\ \E log \in BagToSet(write_running) :
        /\ write_running' = write_running (-) SetToBag({log})
        /\ \E files \in to_file_failed(log.lyrics, disk[log.path]) :
              disk' = [disk EXCEPT ![log.path] = files]
    /\ file_limiter' = file_limiter
    /\ write_done' = write_done + 1
    /\ UNCHANGED <<pc, uivars, storevars, client_limiter, apivars, write_waiting>>

\* the task of LyricsRecord::save: to_file returns Err, the permit is dropped
WriteErr ==
    /\ pc # "config"
    /\ \E log \in BagToSet(write_running) :
        /\ write_running' = write_running (-) SetToBag({log})
        /\ \E files \in to_file_failed(log.lyrics, disk[log.path]) :
              disk' = [disk EXCEPT ![log.path] = files]
    /\ file_limiter' = add_permits(file_limiter, 1)
    /\ write_done' = write_done + 1
    /\ UNCHANGED <<pc, uivars, storevars, client_limiter, apivars, write_waiting>>

----------------------------------------------------------------------------
(* Spec: a session on the default library in which the user scans, moves   *)
(* the selection and quits; the remote service has no lyrics text to give.  *)

Keys == {KeyChar(c) : c \in {"a", "j", "k", "q"}} \cup {KeyEnter, KeyEsc}

Buffers == {<< >>}

Disks == {DiskEmpty}

Configs ==
    {ConfigMissing, ConfigUnparseable}
    \cup {ConfigParsed(n, DefaultMusicPath) : n \in 0..2}

ResponsesNoText == {r \in Responses : query(r).kind \in {"None", "Instrumental"}}

FiltersNone == {NoFilter}

Init == InitWith(Disks, FiltersNone)

\* the background tasks when no result carries text: to_file writes no file
TasksNoText == ApiAcquire \/ ApiReturn(ResponsesNoText) \/ WriteAcquire \/ WriteOk

Loop == IdleReset \/ DrainApi \/ DrainWrite \/ Render \/ RenderError \/ PollNone

Next ==
    \/ GetOrCreateConfig(Configs)
    \/ Loop
    \/ PollKey(Keys, Buffers, MaxJobs)
    \/ TasksNoText

Spec == Init /\ [][Next]_vars

----------------------------------------------------------------------------
(* The progress counters. *)

\* C1: in every state of the loop done <= total, so the ratio given to the
\* gauge is a fraction done/total between 0 and 1, and it is 1 when total = 0.
C1_DoneAtMostTotal ==
    /\ done <= total
    /\ LET r == progress_ratio(total, done) IN
        /\ r[2] > 0
        /\ 0 <= r[1] /\ r[1] <= r[2]
        /\ total = 0 => r[1] = r[2]
        /\ total > 0 => r = <<done, total>>

\* C1 witness: a completion was reconciled while another job is outstanding,
\* and the gauge is about to be drawn with a proper fraction.
C1_Witness == pc = "render" /\ 0 < done /\ done < total

\* C2 as stated: no fetch is requested (total incremented) in a state where
\* done has caught up with a total that is not zero.
C2_ResetBeforeNextIssue ==
    [][total' > total => ~(done = total /\ total > 0)]_vars

----------------------------------------------------------------------------
(* The network pool. *)

\* fetches that hold a network permit and are inside their remote query
InFlight == BagCardinality(api_querying)

\* C3: with a pool of K permits the fetches inside their remote query are never
\* more than K, however many fetches were requested.
C3_InFlightAtMostK == InFlight <= settings.concurrent_queries

\* C3 witness: K >= 1 fetches hold all the permits while another one waits.
C3_Witness ==
    /\ settings.concurrent_queries >= 1
    /\ InFlight = settings.concurrent_queries
    /\ BagCardinality(api_waiting) >= 1

----------------------------------------------------------------------------
(* SpecReconf: Func::set_concurrent_queries called while the loop runs, as  *)
(* the SetConcurrency operation that changes a pool at runtime.  In main()  *)
(* its only caller is set_settings, before the loop starts.                 *)

\* the fetches in flight, all marked as holders from before the call
mark_before_set(querying) ==
    LET marked == {[h EXCEPT !.before_set = TRUE] : h \in BagToSet(querying)}
    IN [m \in marked |->
            CopiesIn(m, querying) + CopiesIn([m EXCEPT !.before_set = FALSE], querying)]

\* Func::set_concurrent_queries(state, value), called between two polls
SetConcurrency(limits) ==
    /\ pc = "poll"
    /\ \E value \in limits :
        /\ client_limiter' = set_concurrent_queries(client_limiter, value)
        /\ settings' = [settings EXCEPT !.concurrent_queries = value]
    /\ api_querying' = mark_before_set(api_querying)
    /\ pc' = "reset"
    /\ UNCHANGED <<disk, uivars, music, lyrics, total, done, file_limiter,
                   api_waiting, api_done, writevars>>

ConfigsOnePermit == {ConfigParsed(1, DefaultMusicPath)}

KeysReconf == {KeyEnter, KeyChar("q")}

Limits == {0, 1}

NextReconf ==
    \/ GetOrCreateConfig(ConfigsOnePermit)
    \/ Loop
    \/ PollKey(KeysReconf, Buffers, MaxJobs)
    \/ TasksNoText
    \/ SetConcurrency(Limits)

SpecReconf == Init /\ [][NextReconf]_vars

\* fetches in flight that acquired their permit after the latest call of
\* set_concurrent_queries
InFlightSince == BagCardinality([h \in {x \in BagToSet(api_querying) : ~x.before_set} |->
                                    CopiesIn(h, api_querying)])

----------------------------------------------------------------------------
(* SpecFair: a session that only scans the whole library, with a pool of    *)
(* one permit, under the scheduling the runtime gives: the loop never       *)
(* blocks (event::poll returns after 50 ms at the latest), every spawned    *)
(* task is eventually polled, and every remote query and write returns.     *)

KeysScanAll == {KeyChar("a")}

NextFair ==
    \/ GetOrCreateConfig(ConfigsOnePermit)
    \/ IdleReset \/ DrainApi \/ DrainWrite \/ Render \/ PollNone
    \/ PollKey(KeysScanAll, Buffers, MaxJobs)
    \/ TasksNoText

Fairness ==
    /\ WF_vars(GetOrCreateConfig(ConfigsOnePermit))
    /\ WF_vars(IdleReset) /\ WF_vars(DrainApi) /\ WF_vars(DrainWrite)
    /\ WF_vars(Render)
    /\ WF_vars(PollNone \/ PollKey(KeysScanAll, Buffers, MaxJobs))
    /\ WF_vars(ApiAcquire) /\ WF_vars(ApiReturn(ResponsesNoText))
    /\ WF_vars(WriteAcquire) /\ WF_vars(WriteOk)

SpecFair == Init /\ [][NextFair]_vars /\ Fairness

\* C5 as stated: when scan-all issues N fetches while no earlier job is
\* outstanding, total is N right after the dispatch; every batch is eventually
\* reconciled (done = total); and the loop iteration that starts with
\* done = total resets both counters to 0.
C5_ScanAllReconciled ==
    /\ [][(pc = "poll" /\ JobsAlive = 0 /\ total' > total)
            => total' = BagCardinality(api_waiting')]_vars
    /\ (total > 0) ~> (done = total)
    /\ [][(pc = "reset" /\ pc' = "drain" /\ done = total)
            => (total' = 0 /\ done' = 0)]_vars

----------------------------------------------------------------------------
(* SpecScan: sessions that scan the whole library under a filter, over      *)
(* libraries whose sidecars give every kind of entry of the lyrics store.   *)

FiltersScan ==
    {NoFilter, [NoFilter EXCEPT !.artist = Some(<<"e","n","o">>)],
     [NoFilter EXCEPT !.title = Some(<<"B">>)]}

DisksScan == {DiskEmpty, DiskSyncedPlain, DiskUnreadable}

ConfigsScan == {ConfigParsed(1, EnoMusicPath), ConfigParsed(1, DefaultMusicPath)}

InitScan == InitWith(DisksScan, FiltersScan)

NextScan ==
    \/ GetOrCreateConfig(ConfigsScan)
    \/ Loop
    \/ PollKey(KeysScanAll, Buffers, MaxJobs)
    \/ TasksNoText

SpecScan == InitScan /\ [][NextScan]_vars

\* C6: a scan-all dispatch issues one fetch for each track of the visible set
\* whose entry in the lyrics store is None (Absent) or Plain, in the order of
\* the visible set, and for no other track; these fetches are what the
\* dispatch adds to the issued jobs and to total.
C6_FetchAllIssues ==
    [][(pc = "poll" /\ pc' # pc /\ keymap_get(screen, KeyChar("a")) = Some("ScanAll")
        /\ ~IsSome(field) /\ <<total, api_waiting>>' # <<total, api_waiting>>)
        => LET rows == Visible(music, filter)
               retry(m) == /\ m.path \in DOMAIN lyrics
                           /\ lyrics[m.path].kind \in {"None", "Plain"}
               issued == scan_all(State).spawned
           IN /\ \A i \in 1..Len(issued) :
                    /\ \E j \in 1..Len(rows) : rows[j] = issued[i]
                    /\ retry(issued[i])
                    /\ \A j \in 1..Len(issued) : i < j =>
                            \E a, b \in 1..Len(rows) :
                                a < b /\ rows[a] = issued[i] /\ rows[b] = issued[j]
              /\ \A j \in 1..Len(rows) :
                    retry(rows[j]) => \E i \in 1..Len(issued) : issued[i] = rows[j]
              /\ \A i \in 1..Len(issued) :
                    /\ ~(/\ issued[i].path \in DOMAIN lyrics
                          /\ lyrics[issued[i].path].kind \in {"Synced", "Instrumental"})
                    /\ apply(filter, issued[i])
              /\ total' = total + Len(issued)
              /\ \A m \in BagToSet(api_waiting') :
                    CopiesIn(m, api_waiting') - CopiesIn(m, api_waiting)
                        = Cardinality({i \in 1..Len(issued) : issued[i] = m})]_vars

\* C6 witness: under the filter "eno" the store has a Synced entry in the
\* visible set, a Plain entry outside it and a None entry in it, and scan-all
\* has issued the one fetch, for the track with the None entry.
C6_Witness ==
    /\ pc = "reset"
    /\ filter.artist = Some(<<"e","n","o">>)
    /\ Len(Visible(music, filter)) = 2
    /\ DOMAIN lyrics = Paths
    /\ lyrics["p1"].kind = "Synced" /\ lyrics["p2"].kind = "Plain"
    /\ lyrics["p3"].kind = "None"
    /\ total = 1 /\ done = 0
    /\ api_waiting = SetToBag({music[3]})

----------------------------------------------------------------------------
(* The disk pool.                                                           *)
(* SpecBurst: the session at a point where the disk is slow and the writes  *)
(* pile up.  The user has pressed Enter FileLimiterInit + BurstOver + 2     *)
(* times: the first fetch was for the first row, every later one for the    *)
(* last row.  The first job is finished; of the others, all but one writes  *)
(* of a full pool hold a disk permit, BurstOver completions are ready to be *)
(* drained, one fetch is in its query and one waits for the permit.         *)

BurstLog == [lyrics |-> LyricsNone, path |-> LibraryMain[2].path]

\* a key that is bound to nothing on the Main screen
KeysUnbound == {KeyEsc}

InitBurst ==
    /\ pc = "reset"
    /\ disk = DiskEmpty
    /\ settings = [concurrent_queries |-> 1, music_path |-> DefaultMusicPath]
    /\ screen = "Main"
    /\ table_state = Some(1)
    /\ will_quit = FALSE
    /\ music = LibraryMain
    /\ lyrics = probe_all(LibraryMain, DiskEmpty, EmptyMap)
    /\ total = FileLimiterInit + BurstOver + 2
    /\ done = FileLimiterInit
    /\ client_limiter = 0
    /\ file_limiter = 1
    /\ filter = NoFilter
    /\ field = NoneOpt
    /\ current_string = << >>
    /\ filters_popup_state = NoneOpt
    /\ api_waiting = SetToBag({LibraryMain[2]})
    /\ api_querying = SetToBag({Holder(LibraryMain[2])})
    /\ api_done = [i \in 1..BurstOver |-> BurstLog]
    /\ write_waiting = EmptyBag
    /\ write_running = [log \in {BurstLog} |-> FileLimiterInit - 1]
    /\ write_done = 0

NextBurst ==
    \/ Loop
    \/ PollKey(KeysUnbound, Buffers, MaxJobs)
    \/ TasksNoText

SpecBurst == InitBurst /\ [][NextBurst]_vars

\* writes that hold a disk permit
WritesInFlight == BagCardinality(write_running)

\* C7: the writes in flight are never more than the FileLimiterInit permits of
\* the disk pool, however many completions one drain reconciles; and the two
\* pools are independent: a waiting write can acquire a disk permit whenever
\* one is available, also when no network permit is, a waiting fetch can
\* acquire a network permit whenever one is available, also when no disk
\* permit is, and acquiring or returning a permit of one pool leaves the
\* other pool as it is.
C7_DiskPoolBounded ==
    /\ [](/\ WritesInFlight <= FileLimiterInit
          /\ WritesInFlight + file_limiter = FileLimiterInit
          /\ (Running /\ write_waiting # EmptyBag /\ file_limiter > 0)
                => ENABLED WriteAcquire
          /\ (Running /\ api_waiting # EmptyBag /\ client_limiter > 0)
                => ENABLED ApiAcquire)
    /\ [][/\ file_limiter' # file_limiter => client_limiter' = client_limiter
          /\ client_limiter' # client_limiter => file_limiter' = file_limiter]_vars

\* C7 witness: every disk permit is held and a write reconciled in the same
\* drain waits for one, while a fetch can acquire the network permit.
C7_Witness ==
    /\ WritesInFlight = FileLimiterInit
    /\ file_limiter = 0
    /\ BagCardinality(write_waiting) >= BurstOver
    /\ client_limiter > 0
    /\ ENABLED ApiAcquire

----------------------------------------------------------------------------
(* SpecKeys: sessions in which the user opens the filter popup, picks a     *)
(* field and types keys that are commands outside text entry; the remote    *)
(* service cannot be reached.                                               *)

ResponsesFailed == {r \in Responses : r.kind # "json"}

TasksFailed == ApiAcquire \/ ApiReturn(ResponsesFailed) \/ WriteAcquire \/ WriteOk

KeysCommands == {KeyChar(c) : c \in {"f", "j", "q", "a"}} \cup {KeyEnter}

BuffersCommands == {<< >>, <<"q">>, <<"a">>, <<"j">>}

NextKeys ==
    \/ GetOrCreateConfig(ConfigsOnePermit)
    \/ Loop
    \/ PollKey(KeysCommands, BuffersCommands, MaxJobsText)
    \/ TasksFailed

SpecKeys == Init /\ [][NextKeys]_vars

\* C8: a poll step taken while text entry is active (a key press or none)
\* leaves screen, quit flag, table selection, popup selection, total, done and
\* the issued jobs unchanged, does not end the loop, and leaves every filter
\* field other than the targeted one unchanged.
C8_TextEntryConsumesKeys ==
    [][(pc = "poll" /\ pc' # pc /\ IsSome(field))
        => /\ UNCHANGED <<screen, will_quit, table_state, filters_popup_state,
                          total, done, apivars, writevars>>
           /\ pc' = "reset"
           /\ \A f \in DOMAIN filter \ {Unwrap(field)} : filter'[f] = filter[f]]_vars

\* C8 witness: with the popup open and a job outstanding, 'q' was typed into
\* the artist field: it is in the buffer, the popup is still open and the
\* loop goes on.
C8_Witness ==
    /\ pc = "reset"
    /\ field = Some("artist")
    /\ current_string = <<"q">>
    /\ screen = "Filters"
    /\ ~will_quit
    /\ total = 1 /\ done = 0

(* SpecText: sessions in which the user opens the filter popup, picks a     *)
(* field and edits its text.                                                *)

KeysText ==
    {KeyChar(c) : c \in {"f", "j", "A", "b", "c"}} \cup {KeyEnter, KeyBackspace}

BuffersText == {<< >>, <<"A">>, <<"A", "b">>, <<"A", "c">>}

NextText ==
    \/ GetOrCreateConfig(ConfigsOnePermit)
    \/ Loop
    \/ PollKey(KeysText, BuffersText, MaxJobsText)
    \/ TasksFailed

SpecText == Init /\ [][NextText]_vars

\* C9: in text entry a character key appends its character to the buffer,
\* Backspace removes the last character (nothing from an empty buffer), and
\* Enter sets the targeted field to the buffer, or to None when the buffer is
\* empty, and ends text entry; each of them leaves the rest as it is.  From
\* the buffer "Ab", Backspace then 'c' gives "Ac" and Enter commits "Ac".
C9_TextEntryEdits ==
    IsSome(field) =>
        LET typed(c) == event_handler(State, KeyChar(c))
            erased == event_handler(State, KeyBackspace)
            entered == event_handler(State, KeyEnter)
            n == Len(current_string)
        IN /\ \A c \in {"A", "b", "c", "q"} :
                typed(c) = [State EXCEPT !.current_string = current_string \o <<c>>]
           /\ erased = [State EXCEPT !.current_string =
                            IF n = 0 THEN << >> ELSE [i \in 1..(n - 1) |-> current_string[i]]]
           /\ entered = [State EXCEPT
                            !.filter[Unwrap(field)] =
                                IF n = 0 THEN NoneOpt ELSE Some(current_string),
                            !.field = NoneOpt,
                            !.current_string = << >>]
           /\ current_string = <<"A", "b">> =>
                LET ac == event_handler(event_handler(State, KeyBackspace), KeyChar("c"))
                IN /\ ac.current_string = <<"A", "c">>
                   /\ event_handler(ac, KeyEnter).filter[Unwrap(field)]
                        = Some(<<"A", "c">>)

\* C9 witness: Enter has committed the title "Ac"; the artist field, whose
\* committed text is "Ab", was opened again and its buffer edited to "Ac",
\* which takes a Backspace and a 'c'.
C9_Witness ==
    /\ filter.title = Some(<<"A", "c">>)
    /\ filter.artist = Some(<<"A", "b">>)
    /\ field = Some("artist")
    /\ current_string = <<"A", "c">>

----------------------------------------------------------------------------
(* SpecFilter: sessions that browse and scan a library under a filter       *)
(* entered in lower case, upper case or with an accented letter.            *)

FiltersCase ==
    {NoFilter,
     [NoFilter EXCEPT !.artist = Some(<<"e","n","o">>)],
     [NoFilter EXCEPT !.artist = Some(<<"E","N","O">>), !.title = Some(<<"X">>)],
     [NoFilter EXCEPT !.artist = Some(<<"é">>)],
     [NoFilter EXCEPT !.album = Some(<<"z">>)]}

ConfigsCase == {ConfigParsed(1, EnoMusicPath), ConfigParsed(1, AccentMusicPath)}

KeysBrowse == {KeyChar("j"), KeyChar("k"), KeyChar("a")}

InitFilter == InitWith(Disks, FiltersCase)

NextFilter ==
    \/ GetOrCreateConfig(ConfigsCase)
    \/ Loop
    \/ PollKey(KeysBrowse, Buffers, MaxJobs)
    \/ TasksFailed

SpecFilter == InitFilter /\ [][NextFilter]_vars

\* C10 as stated: the rows of the table are the tracks of the library, in scan
\* order, of which every set filter field is a substring of the attribute when
\* letter case is disregarded (for the letters of the libraries: A-Z, and É
\* with its lower case é); artist "eno" keeps the first and third of
\* "Brian Eno", "Devo", "eno-core"; filtering the rows again gives the rows.
C10_CaseInsensitiveVisible ==
    LET lower(c) == IF c = "É" THEN "é" ELSE ascii_lowercase_char(c)
        fold(str) == [i \in 1..Len(str) |-> lower(str[i])]
        substring(pat, text) ==
            \E k \in 0..(Len(text) - Len(pat)) :
                \A i \in 1..Len(pat) : fold(text)[k + i] = fold(pat)[i]
        matches(m) ==
            \A f \in DOMAIN filter :
                IsSome(filter[f]) => substring(Unwrap(filter[f]), m[f])
        rows == Visible(music, filter)
    IN /\ rows = SelectSeq(music, matches)
       /\ (music = LibraryEno /\ filter = [NoFilter EXCEPT !.artist = Some(<<"e","n","o">>)])
            => rows = <<LibraryEno[1], LibraryEno[3]>>
       /\ Visible(rows, filter) = rows

----------------------------------------------------------------------------
(* SpecOffline: sessions that scan and quit while every query fails: the    *)
(* request is not sent, the status is no success, the body cannot be read   *)
(* or parsed.                                                               *)

KeysScan == {KeyEnter, KeyChar("a"), KeyChar("q")}

NextOffline ==
    \/ GetOrCreateConfig(ConfigsOnePermit)
    \/ Loop
    \/ PollKey(KeysScan, Buffers, MaxJobs)
    \/ TasksFailed

SpecOffline == Init /\ [][NextOffline]_vars

\* C11: a fetch task ends with exactly one completion for its track's path
\* and is not queried again; the completion carries Lyrics::None when the
\* request fails to be sent, the status is no success, the body cannot be
\* read or parsed, or the permit could not be acquired; a completion always
\* carries a Lyrics value, never an error.
C11_OneCompletionAbsentOnError ==
    /\ [](\A r \in Responses, m \in {music[i] : i \in DOMAIN music} :
            /\ r.kind # "json" => task_result(TRUE, m, r) = [lyrics |-> LyricsNone, path |-> m.path]
            /\ task_result(FALSE, m, r) = [lyrics |-> LyricsNone, path |-> m.path]
            /\ task_result(TRUE, m, r).path = m.path
            /\ task_result(TRUE, m, r).lyrics.kind \in {"None", "Synced", "Plain", "Instrumental"})
    /\ [][api_querying' # api_querying /\ BagCardinality(api_querying') < BagCardinality(api_querying)
            => \E holder \in BagToSet(api_querying) :
                /\ api_querying' = api_querying (-) SetToBag({holder})
                /\ api_waiting' = api_waiting
                /\ api_done' = Append(api_done, [lyrics |-> LyricsNone, path |-> holder.data.path])
                /\ UNCHANGED <<storevars, uivars>>]_vars
    /\ [][Len(api_done') > Len(api_done)
            => BagCardinality(api_querying') = BagCardinality(api_querying) - 1
               /\ Len(api_done') = Len(api_done) + 1]_vars

\* C11 witness: two fetches were requested and every query fails; both have
\* ended, each with one completion carrying Lyrics::None for its path, and
\* nothing waits or runs any more.
C11_Witness ==
    /\ api_done = <<[lyrics |-> LyricsNone, path |-> "p2"],
                    [lyrics |-> LyricsNone, path |-> "p1"]>>
    /\ api_waiting = EmptyBag /\ api_querying = EmptyBag
    /\ total = 2 /\ done = 0

----------------------------------------------------------------------------
(* Quitting. *)

\* C12: on the Main screen outside text entry the key 'q' sets the quit flag;
\* the loop is at its end as soon as the flag is set, in the same iteration;
\* after the end of the loop nothing is drained or applied to the lyrics
\* store or the counters, and the fetches and writes that are outstanding
\* are neither awaited nor removed.
C12_QuitExits ==
    /\ []((pc = "poll" /\ screen = "Main" /\ ~IsSome(field))
            => /\ keymap_get(screen, KeyChar("q")) = Some("Quit")
               /\ event_handler(State, KeyChar("q")) = [State EXCEPT !.will_quit = TRUE])
    /\ [](will_quit => pc = "exit")
    /\ [][(pc = "poll" /\ will_quit') => (pc' = "exit" /\ UNCHANGED <<storevars, apivars, writevars>>)]_vars
    /\ [][pc = "exit" => UNCHANGED <<pc, uivars, storevars, apivars, write_waiting>>]_vars

\* C12 witness: the loop has ended on 'q' while one fetch is in its query,
\* another has completed and is not drained, and done is behind total.
C12_Witness ==
    /\ pc = "exit" /\ will_quit
    /\ BagCardinality(api_querying) = 1
    /\ Len(api_done) = 1
    /\ total = 2 /\ done = 0


----------------------------------------------------------------------------
(* Selection and the lyrics pane under filter changes, in the sessions of   *)
(* SpecText: the library has two tracks, the title filter "A" keeps the     *)
(* first and "Ab" keeps none.                                               *)

\* the row of the visible set the table selection addresses, if any
selected_row ==
    IF IsSome(table_state) /\ Unwrap(table_state) < Len(Visible(music, filter))
    THEN Some(Visible(music, filter)[Unwrap(table_state) + 1])
    ELSE NoneOpt

\* C13: at every input dispatch with a non-empty visible set the table
\* selection addresses an existing row of the visible set, and the lyrics
\* pane shows the store entry of exactly that row ("Not found" when the store
\* has none).
C13_SelectionAddressesRow ==
    (pc = "poll" /\ Visible(music, filter) # << >>) =>
        /\ IsSome(selected_row)
        /\ lyrics_pane(music, filter, table_state, lyrics) =
                IF Unwrap(selected_row).path \in DOMAIN lyrics
                THEN LET lyric == lyrics[Unwrap(selected_row).path]
                     IN IF lyric.kind \in {"None", "Instrumental"}
                        THEN Some(lyric.kind) ELSE Some(lyric.text)
                ELSE Some("Not found")

----------------------------------------------------------------------------
(* SpecPersist: sessions that fetch the selected track, again and again,    *)
(* from a service that answers with synced text, plain text, an             *)
(* instrumental mark or not at all; the disk starts empty or with sidecars  *)
(* of an earlier run, and a write can fail.                                 *)

JsonResponse(i, p, s) ==
    [kind |-> "json",
     data |-> [instrumental |-> i, plain_lyrics |-> p, synced_lyrics |-> s]]

ResponsesText ==
    {[kind |-> "send_error"],
     JsonResponse(FALSE, NoneOpt, Some(SyncedText)),
     JsonResponse(FALSE, Some(PlainText), NoneOpt),
     JsonResponse(TRUE, NoneOpt, NoneOpt)}

TasksText == ApiAcquire \/ ApiReturn(ResponsesText) \/ WriteAcquire \/ WriteOk \/ WriteErr

KeysPersist == {KeyEnter}

DisksPersist == {DiskEmpty, DiskSyncedPlain}

InitPersist == InitWith(DisksPersist, FiltersNone)

NextPersist ==
    \/ GetOrCreateConfig(ConfigsOnePermit)
    \/ Loop
    \/ PollKey(KeysPersist, Buffers, MaxJobsText)
    \/ TasksText

SpecPersist == InitPersist /\ [][NextPersist]_vars

\* the sidecar states a track can be in when a write lands
SidecarStates ==
    [lrc : {NoneOpt, Some(""), Some(SyncedText), Some("old"), Some(Unreadable)},
     txt : {NoneOpt, Some(""), Some(PlainText), Some("old"), Some(Unreadable)}]

\* C14: writing Synced(t) and probing the sidecars again gives Synced(t),
\* whatever sidecars the track had before (evaluated once, at the start, over
\* SidecarStates); a step in which a write task of a
\* Synced(t) record ends with Ok leaves the disk so that the probe of that
\* track gives Synced(t), and the sidecars of a track change only in the
\* step in which a write task of that track ends.
C14_SyncedRoundTrip ==
    /\ [](pc = "config" => \A files \in SidecarStates :
            /\ check_lyrics(to_file(LyricsSynced(SyncedText), files))
                    = Some(LyricsSynced(SyncedText))
            /\ check_lyrics(to_file(LyricsSynced("old"), files))
                    = Some(LyricsSynced("old")))
    /\ [][\A log \in BagToSet(write_running) :
            (/\ log.lyrics.kind = "Synced"
             /\ write_running' = write_running (-) SetToBag({log})
             /\ disk' = [disk EXCEPT ![log.path] = to_file(log.lyrics, @)])
            => check_lyrics(disk'[log.path]) = Some(log.lyrics)]_vars
    /\ [][\A p \in Paths :
            disk'[p] # disk[p] =>
                \E log \in BagToSet(write_running) :
                    /\ log.path = p
                    /\ write_running' = write_running (-) SetToBag({log})]_vars

\* C14 witness: the second track had the plain sidecar "old"; the fetched
\* Synced text has been written next to it, no write is outstanding, and the
\* probe of the track gives the Synced text.
C14_Witness ==
    /\ disk["p2"] = [lrc |-> Some(SyncedText), txt |-> Some("old")]
    /\ write_waiting = EmptyBag /\ write_running = EmptyBag
    /\ check_lyrics(disk["p2"]) = Some(LyricsSynced(SyncedText))
    /\ "p2" \in DOMAIN lyrics /\ lyrics["p2"] = LyricsSynced(SyncedText)

\* C15: a write touches only the sidecar of the result's kind: for Synced the
\* .txt sidecar stays as it was, for Plain the .lrc sidecar stays as it was,
\* for None and Instrumental both stay, also when the write fails (evaluated
\* once, at the start, over SidecarStates); in every step the sidecars of at most one track change, they change by a write
\* task of that track ending, only the sidecar of the record's kind changes,
\* and no sidecar is deleted.
C15_WritesOnlyMatchingSidecar ==
    /\ [](pc = "config" => \A files \in SidecarStates :
            /\ \A t \in {SyncedText, PlainText} :
                /\ to_file(LyricsSynced(t), files) = [files EXCEPT !.lrc = Some(t)]
                /\ to_file(LyricsPlain(t), files) = [files EXCEPT !.txt = Some(t)]
                /\ \A after \in to_file_failed(LyricsSynced(t), files) :
                        after.txt = files.txt
                /\ \A after \in to_file_failed(LyricsPlain(t), files) :
                        after.lrc = files.lrc
            /\ to_file(LyricsNone, files) = files
            /\ to_file(LyricsInstrumental, files) = files)
    /\ [][\A p \in Paths :
            disk'[p] # disk[p] =>
                /\ \A other \in Paths \ {p} : disk'[other] = disk[other]
                /\ IsSome(disk[p].lrc) => IsSome(disk'[p].lrc)
                /\ IsSome(disk[p].txt) => IsSome(disk'[p].txt)
                /\ \E log \in BagToSet(write_running) :
                    /\ log.path = p
                    /\ write_running' = write_running (-) SetToBag({log})
                    /\ \/ log.lyrics.kind = "Synced" /\ disk'[p].txt = disk[p].txt
                       \/ log.lyrics.kind = "Plain" /\ disk'[p].lrc = disk[p].lrc]_vars
    /\ [][\A log \in BagToSet(write_running) :
            (/\ write_running' = write_running (-) SetToBag({log})
             /\ log.lyrics.kind \in {"None", "Instrumental"})
            => disk' = disk]_vars

\* C15 witness: the first track had the synced sidecar; its fetched Plain text
\* has been written to the .txt sidecar beside it; the second track was found
\* instrumental and its sidecars are as they were; no write is outstanding.
C15_Witness ==
    /\ disk["p1"] = [lrc |-> Some(SyncedText), txt |-> Some(PlainText)]
    /\ disk["p2"] = [lrc |-> NoneOpt, txt |-> Some("old")]
    /\ DOMAIN lyrics = {"p1", "p2"}
    /\ lyrics["p1"] = LyricsPlain(PlainText)
    /\ lyrics["p2"] = LyricsInstrumental
    /\ write_waiting = EmptyBag /\ write_running = EmptyBag /\ api_done = << >>
    /\ done = 0 /\ total = 0

----------------------------------------------------------------------------
(* SpecStartup: starts with no configuration file, with one that does not   *)
(* parse and with one that holds the default values, over an empty disk and *)
(* over the sidecars of an earlier run.                                     *)

ConfigDefaultValues == ConfigParsed(DefaultConcurrent, DefaultMusicPath)

ConfigsStartup == {ConfigMissing, ConfigUnparseable, ConfigDefaultValues}

KeysStartup == {KeyEnter, KeyChar("a")}

InitStartup == InitWith(DisksPersist, FiltersNone)

NextStartup ==
    \/ GetOrCreateConfig(ConfigsStartup)
    \/ Loop
    \/ PollKey(KeysStartup, Buffers, MaxJobsText)
    \/ TasksFailed

SpecStartup == InitStartup /\ [][NextStartup]_vars

\* C16: every start that ends with the default settings in effect (no file,
\* a file that does not parse, a file holding the default values) leaves the
\* network ceiling at the default concurrency and the library and the lyrics
\* store seeded from the default root, as loading the default values does.
C16_StartupFallsBackToDefaults ==
    [][(pc = "config" /\ pc' # "config" /\ settings' = DefaultSettings) =>
        /\ client_limiter' = DefaultConcurrent
        /\ music' = scan_music_dir(DefaultMusicPath)
        /\ lyrics' = probe_all(scan_music_dir(DefaultMusicPath), disk, EmptyMap)]_vars

----------------------------------------------------------------------------
(* SpecNoPermit: sessions that scan with a network ceiling of 0 or 1, so    *)
(* that issued fetches wait for a permit, for ever under the ceiling 0.     *)

ConfigsNoPermit == {ConfigParsed(0, DefaultMusicPath), ConfigParsed(1, DefaultMusicPath)}

InitNoPermit == InitWith(DisksPersist, FiltersNone)

NextNoPermit ==
    \/ GetOrCreateConfig(ConfigsNoPermit)
    \/ Loop
    \/ PollKey(KeysStartup, Buffers, MaxJobs)
    \/ TasksFailed

SpecNoPermit == InitNoPermit /\ [][NextNoPermit]_vars

\* the rows of the table whose store entry is None or Plain
EligibleRows ==
    {i \in 1..Len(Visible(music, filter)) :
        LET path == Visible(music, filter)[i].path
        IN path \in DOMAIN lyrics /\ lyrics[path].kind \in {"None", "Plain"}}

\* C17: at an input dispatch on the main screen, whatever the number of
\* permits, scan-all adds the number n of eligible rows to total and spawns n
\* tasks, scan-selected on a selected track adds 1 and spawns 1, and neither
\* touches the lyrics store; the dispatch step itself adds to total what it
\* adds to the waiting tasks and leaves the store, done, the running and
\* finished tasks and the permits alone; and no step of the loop waits for a
\* task: in each position of the loop its step is enabled.
C17_IssuingNeverBlocks ==
    /\ []((pc = "poll" /\ screen = "Main" /\ ~IsSome(field)) =>
            /\ LET st == event_handler(State, KeyChar("a"))
                   n == Cardinality(EligibleRows)
               IN /\ st.total = total + n
                  /\ Len(st.spawned) = n
                  /\ st.lyrics = lyrics
            /\ (IsSome(table_state) /\ Unwrap(table_state) < Len(music)) =>
                LET st == event_handler(State, KeyEnter)
                IN /\ st.total = total + 1
                   /\ Len(st.spawned) = 1
                   /\ st.lyrics = lyrics)
    /\ [][(pc = "poll" /\ pc' # pc) =>
            /\ total' - total
                    = BagCardinality(api_waiting') - BagCardinality(api_waiting)
            /\ pc' = "reset"
            /\ UNCHANGED <<lyrics, done, music, disk, poolvars, api_querying,
                           api_done, writevars>>]_vars
    /\ [](/\ pc = "reset" => ENABLED IdleReset
          /\ pc = "drain" => ENABLED (DrainApi \/ DrainWrite)
          /\ pc = "render" => ENABLED Render
          /\ pc = "poll" => ENABLED PollNone)

\* C17 witness: under the ceiling 0 the user pressed Enter on the first row
\* and, an iteration later, on the second; both tasks wait for a permit,
\* total is 2, nothing is done, and the loop has rendered again (the
\* selection is clamped to the last row) and polls.
C17_Witness ==
    /\ settings.concurrent_queries = 0
    /\ client_limiter = 0
    /\ BagCardinality(api_waiting) = 2
    /\ api_querying = EmptyBag /\ api_done = << >>
    /\ total = 2 /\ done = 0
    /\ table_state = Some(1)
    /\ pc = "poll"

----------------------------------------------------------------------------
(* Reconciliation of completions, in the sessions of SpecOffline. *)

\* fetch jobs issued and not yet reconciled
Outstanding ==
    BagCardinality(api_waiting) + BagCardinality(api_querying) + Len(api_done)

\* C18: a completion leaves the ready queue only in a drain step of the loop,
\* one at a time and in arrival order, and that step starts exactly one write
\* task for it, puts its result in the store under its path and adds one to
\* done; the loop goes from the drain to the render only when no completion
\* is ready; and while the loop runs total - done is the number of jobs
\* issued and not yet reconciled.
C18_ReconciledOnceInDrain ==
    /\ [][api_done # << >> /\ api_done' # api_done /\ Len(api_done') <= Len(api_done) =>
            LET log == Head(api_done) IN
            /\ pc = "drain" /\ pc' = "drain"
            /\ api_done' = Tail(api_done)
            /\ write_waiting' = write_waiting (+) SetToBag({log})
            /\ write_running' = write_running
            /\ log.path \in DOMAIN lyrics' /\ lyrics'[log.path] = log.lyrics
            /\ \A p \in DOMAIN lyrics' \ {log.path} :
                    p \in DOMAIN lyrics /\ lyrics'[p] = lyrics[p]
            /\ done' = done + 1
            /\ UNCHANGED <<total, api_waiting, api_querying>>]_vars
    /\ [][done' # done =>
            \/ done' = done + 1 /\ api_done' = Tail(api_done) /\ api_done # << >>
            \/ done' = 0 /\ pc = "reset" /\ total = done]_vars
    /\ [][(pc = "drain" /\ pc' # "drain") => (api_done = << >> /\ pc' = "render")]_vars
    /\ [](Running => total - done = Outstanding)

\* C18 witness: two completions were ready in one drain; both have been
\* reconciled before the render: two write tasks are started, both results
\* are in the store and done is 2.
C18_Witness ==
    /\ pc = "render"
    /\ api_done = << >> /\ api_waiting = EmptyBag /\ api_querying = EmptyBag
    /\ BagCardinality(write_waiting) = 2
    /\ total = 2 /\ done = 2
    /\ DOMAIN lyrics = {"p1", "p2"}

----------------------------------------------------------------------------
(* SpecRace: sessions that fetch the selected track again and again (the    *)
(* selection stays on the last row), two fetches at a time, from a service  *)
(* that answers with synced text, plain text or not at all.                 *)

ConfigsTwoPermits == {ConfigParsed(2, DefaultMusicPath)}

ResponsesRace ==
    {[kind |-> "send_error"],
     JsonResponse(FALSE, NoneOpt, Some(SyncedText)),
     JsonResponse(FALSE, Some(PlainText), NoneOpt)}

TasksRace == ApiAcquire \/ ApiReturn(ResponsesRace) \/ WriteAcquire \/ WriteOk

KeysRace == {KeyEnter}

NextRace ==
    \/ GetOrCreateConfig(ConfigsTwoPermits)
    \/ Loop
    \/ PollKey(KeysRace, Buffers, MaxJobs)
    \/ TasksRace

SpecRace == Init /\ [][NextRace]_vars

\* C19: the step that reconciles the completion (path, r) sets the store
\* entry of path to r whatever the entry was, and leaves the other entries;
\* an entry changes in no other step of the loop; completions are reconciled
\* in the order of their arrival.
C19_LastWriterWins ==
    /\ [][(pc = "drain" /\ api_done # << >> /\ api_done' # api_done
                /\ Len(api_done') <= Len(api_done)) =>
            /\ api_done' = Tail(api_done)
            /\ lyrics' = [p \in DOMAIN lyrics \cup {Head(api_done).path} |->
                            IF p = Head(api_done).path THEN Head(api_done).lyrics
                            ELSE lyrics[p]]]_vars
    /\ [][(pc # "config" /\ lyrics' # lyrics) =>
            (pc = "drain" /\ api_done # << >> /\ api_done' = Tail(api_done))]_vars
    /\ [][Len(api_done') > Len(api_done) =>
            \E log \in {task_result(TRUE, h.data, r) :
                            h \in BagToSet(api_querying), r \in ResponsesRace} :
                api_done' = Append(api_done, log)]_vars

\* C19 witness: two fetches of the second track were outstanding; the one
\* that arrived first gave the Synced text, the one that arrived last gave
\* nothing; both are reconciled, the write tasks of both are started and not
\* yet running, and the store entry of the track is None.
C19_Witness ==
    /\ pc = "drain"
    /\ api_done = << >> /\ api_waiting = EmptyBag /\ api_querying = EmptyBag
    /\ write_running = EmptyBag
    /\ write_waiting = SetToBag({[lyrics |-> LyricsSynced(SyncedText), path |-> "p2"],
                                 [lyrics |-> LyricsNone, path |-> "p2"]})
    /\ disk["p2"] = NoSidecars
    /\ done = total
    /\ lyrics["p2"] = LyricsNone

----------------------------------------------------------------------------
(* What the background tasks leave alone, in the sessions of SpecPersist. *)

\* the state the screen is drawn from and the handlers act on
UiVisible == <<music, lyrics, total, done, table_state, filter, screen, will_quit>>

\* C20: after the start, a step in which a task takes or returns a permit,
\* starts or ends its query, ends its write (with Ok or with an error) or
\* changes a file leaves library, lyrics store, total, done, selection,
\* filter, screen and quit flag as they are; these change only in a step of
\* the loop: one that moves the loop on, or a drain step that takes the head
\* of the ready completions.
C20_LoopIsSoleMutator ==
    /\ [][(/\ pc # "config"
           /\ \/ client_limiter' # client_limiter
              \/ file_limiter' # file_limiter
              \/ api_querying' # api_querying
              \/ Len(api_done') > Len(api_done)
              \/ write_running' # write_running
              \/ disk' # disk)
            => UNCHANGED UiVisible]_vars
    /\ [][UiVisible' # UiVisible =>
            \/ pc' # pc
            \/ /\ pc = "drain" /\ api_done # << >> /\ api_done' = Tail(api_done)
               /\ UNCHANGED <<music, total, table_state, filter, screen, will_quit>>]_vars

\* C20 witness: the fetch of the first track has finished with the Synced
\* text while the loop polls; the completion is not drained yet: the store
\* entry of the track is still the None of the start and done is 0.
C20_Witness ==
    /\ pc = "poll"
    /\ api_done = <<[lyrics |-> LyricsSynced(SyncedText), path |-> "p1"]>>
    /\ lyrics["p1"] = LyricsNone
    /\ total = 1 /\ done = 0
    /\ client_limiter = 1

----------------------------------------------------------------------------
(* The permits of both pools, in the sessions of SpecPersist. *)

\* C21: after the start the permits out of the network pool are those of the
\* fetches between acquire and return, and the permits out of the disk pool
\* those of the running writes, so with nothing running each pool has its
\* ceiling available; the step that makes a completion ready gives the
\* network permit back; the step that ends a write, with Ok or with an
\* error, gives the disk permit back; and a task is in one phase at a time:
\* the step that takes a permit of one pool takes none of the other.
C21_PermitsReturned ==
    /\ [](pc # "config" =>
            /\ client_limiter + BagCardinality(api_querying)
                    = settings.concurrent_queries
            /\ file_limiter + BagCardinality(write_running) = FileLimiterInit)
    /\ [][Len(api_done') > Len(api_done) =>
            /\ client_limiter' = client_limiter + 1
            /\ BagCardinality(api_querying') = BagCardinality(api_querying) - 1
            /\ file_limiter' = file_limiter]_vars
    /\ [][BagCardinality(write_running') < BagCardinality(write_running) =>
            /\ file_limiter' = file_limiter + 1
            /\ client_limiter' = client_limiter]_vars
    /\ [][(pc # "config" /\ client_limiter' < client_limiter) =>
            /\ file_limiter' = file_limiter
            /\ write_running' = write_running]_vars
    /\ [][file_limiter' < file_limiter =>
            /\ client_limiter' = client_limiter
            /\ api_querying' = api_querying]_vars

\* C21 witness: the write of the Synced text of the first track has failed
\* after truncating the sidecar; nothing runs, and both pools have their
\* ceiling available.
C21_Witness ==
    /\ disk["p1"] = [lrc |-> Some(""), txt |-> NoneOpt]
    /\ lyrics["p1"] = LyricsSynced(SyncedText)
    /\ api_waiting = EmptyBag /\ api_querying = EmptyBag /\ api_done = << >>
    /\ write_waiting = EmptyBag /\ write_running = EmptyBag
    /\ client_limiter = 1 /\ settings.concurrent_queries = 1
    /\ file_limiter = FileLimiterInit

----------------------------------------------------------------------------
(* The counters against the jobs, in the sessions of SpecNoPermit. *)

\* C22: in every state total - done is the number of fetch jobs issued and
\* not yet reconciled, so total > done while one is outstanding; a step that
\* sets counters that were not both 0 to (0, 0) is the reset at the top of
\* the loop, taken with no fetch job outstanding.
C22_CountersMatchOutstanding ==
    /\ [](total - done = Outstanding)
    /\ [](Outstanding > 0 => total > done)
    /\ [][(total' = 0 /\ done' = 0 /\ (total # 0 \/ done # 0)) =>
            /\ pc = "reset" /\ pc' = "drain"
            /\ total = done
            /\ Outstanding = 0]_vars

\* C22 witness: a batch of two fetches was reconciled and the next iteration
\* has reset the counters; the two write tasks still wait, no fetch job is
\* outstanding.
C22_Witness ==
    /\ pc = "drain"
    /\ total = 0 /\ done = 0
    /\ Outstanding = 0
    /\ BagCardinality(write_waiting) = 2

----------------------------------------------------------------------------
(* SpecSelected: sessions that move the selection and fetch the selected    *)
(* track in a library of three tracks, under no filter, under a filter that *)
(* hides the second track and under a filter that hides all of them; the    *)
(* remote service cannot be reached.                                        *)

FiltersSelected ==
    {NoFilter,
     [NoFilter EXCEPT !.artist = Some(<<"e","n","o">>)],
     [NoFilter EXCEPT !.album = Some(<<"z">>)]}

ConfigsSelected == {ConfigParsed(1, EnoMusicPath)}

KeysSelected == {KeyEnter, KeyChar("j"), KeyChar("k")}

InitSelected == InitWith(Disks, FiltersSelected)

NextSelected ==
    \/ GetOrCreateConfig(ConfigsSelected)
    \/ Loop
    \/ PollKey(KeysSelected, Buffers, MaxJobs)
    \/ TasksFailed

SpecSelected == InitSelected /\ [][NextSelected]_vars

\* C23: at an input dispatch on the main screen with a row selected, Enter
\* spawns one fetch, for the track of the selected row of the table (the
\* track whose lyrics the pane shows), adds one to total and moves the
\* selection one row on.
C23_ScanSelectedFetchesShownRow ==
    (pc = "poll" /\ screen = "Main" /\ ~IsSome(field) /\ IsSome(selected_row)) =>
        LET st == event_handler(State, KeyEnter)
        IN /\ detail_item(music, filter, table_state) = selected_row
           /\ st.spawned = <<Unwrap(selected_row)>>
           /\ st.total = total + 1
           /\ st.table_state = Some(Unwrap(table_state) + 1)
           /\ ~st.panicked

----------------------------------------------------------------------------
(* SpecCramped: sessions in a terminal that can be too small for the table: *)
(* Screen::render gives the table the inside of the left half of the main   *)
(* area, which is empty when the terminal has 5 lines or fewer (title,      *)
(* gauge, status line and the two borders take them) or 4 columns or fewer. *)
(* The library is empty (the configuration file does not parse) or has two  *)
(* tracks.                                                                  *)

\* main(): terminal.draw when block.inner(left_area) is empty: the Table
\* returns from render before it looks at its rows or its selection
RenderNoRoom ==
    /\ pc = "render"
    /\ pc' = "poll"
    /\ UNCHANGED <<disk, uivars, storevars, poolvars, apivars, writevars>>

ConfigsCramped == {ConfigUnparseable, ConfigParsed(1, DefaultMusicPath)}

NextCramped ==
    \/ GetOrCreateConfig(ConfigsCramped)
    \/ Loop
    \/ RenderNoRoom
    \/ PollKey(KeysPersist, Buffers, MaxJobs)
    \/ TasksFailed

SpecCramped == Init /\ [][NextCramped]_vars

\* C24: the loop never ends by a failed index, and at every input dispatch
\* on the main screen Enter does not fail; with an empty table (an empty
\* library included) it spawns no fetch and leaves total as it is.
C24_ScanSelectedSafe ==
    /\ pc # "panic"
    /\ (pc = "poll" /\ screen = "Main" /\ ~IsSome(field)) =>
            LET st == event_handler(State, KeyEnter)
            IN /\ ~st.panicked
               /\ Visible(music, filter) = << >> =>
                    (st.spawned = << >> /\ st.total = total)

----------------------------------------------------------------------------
(* The store against the sidecars, in the sessions of SpecRace, where every *)
(* write succeeds.                                                          *)

\* no fetch of the track is waiting, in its query or finished and not yet
\* reconciled, and no write of the track is waiting or running
Settled(path) ==
    /\ \A m \in BagToSet(api_waiting) : m.path # path
    /\ \A h \in BagToSet(api_querying) : h.data.path # path
    /\ \A i \in 1..Len(api_done) : api_done[i].path # path
    /\ \A log \in BagToSet(write_waiting) \cup BagToSet(write_running) :
            log.path # path

\* C25: for a track with no fetch outstanding and every write completed,
\* whose store entry is Synced or Plain, probing the sidecars of the track
\* gives the store entry.
C25_StoreMatchesSidecars ==
    \A path \in DOMAIN lyrics :
        (Settled(path) /\ lyrics[path].kind \in {"Synced", "Plain"}) =>
            check_lyrics(disk[path]) = Some(lyrics[path])

=============================================================================
